---- MODULE Spec2Model ----
(***************************************************************************)
(* Retrieval-augmented question answering core of the three Streamlit      *)
(* apps (Finalapp.py, app.py, app1.py): the in-memory vector store, the    *)
(* reset / ingest path, the sufficiency gate, answer synthesis and the     *)
(* bounded search history.                                                 *)
(*                                                                         *)
(* Distances are scaled by ten (1.5 is 15).  A collection handle is the    *)
(* uid of the collection it was obtained for; the store is the process-    *)
(* wide in-memory Chroma system that every chromadb.Client() shares.       *)
(***************************************************************************)
EXTENDS Integers, Sequences, FiniteSets, TLC

VARIABLES
    program,                  \* which of the three scripts this process runs
    store,                    \* Chroma system: collection name -> [uid, records]
    selectable,               \* the files the user has at hand to upload
    collections,              \* add_text_to_chromadb.collections (name -> handle)
    collection,               \* st.session_state.collection, per session
    uploaded_files_processed, \* st.session_state.uploaded_files_processed
    document_contents,        \* st.session_state.document_contents
    search_history,           \* st.session_state.search_history
    last,                     \* the last rerun: its inputs, calls made and display
    clock                     \* number of history entries recorded so far

vars == <<program, store, selectable, collections, collection,
          uploaded_files_processed, document_contents, search_history,
          last, clock>>

-----------------------------------------------------------------------------
(* Bounds of the model *)

MaxFiles == 2        \* files in one upload batch
MaxAsks == 1         \* history entries recorded through the Ask tab
MaxRecords == 15     \* add_to_search_history calls in SpecHistory

(* Program constants *)

None == 0                 \* st.session_state.collection = None
THRESHOLD == 15           \* min(distances) > 1.5
N_RESULTS == 3            \* n_results=3
HISTORY_LIMIT == 10       \* search_history[:10]
MAX_FILE_MB == 10         \* file_size > 10
DOCUMENTED_MAX_MB == 200  \* "Maximum 200MB per file"
MIN_TEXT_LEN == 10        \* len(text.strip()) < 10

REFUSAL == "I cannot answer this question based on the uploaded documents."
NO_SOURCE == "No source"
APP_REFUSAL == "I cannot answer this question with my knowledge."
APP1_REFUSAL == "Hmm... I don't have info on that topic in my science vault just yet."
UPLOADED == "uploaded_documents"
DOCS == "docs"

CollectionNames == {UPLOADED, DOCS}
Distances == {15, 16}
Questions == {"", "  ", "where"}
Generated == {"raise", " Paris. "}

-----------------------------------------------------------------------------
(* Small helpers *)

RECURSIVE lstrip(_)
lstrip(s) == IF Len(s) > 0 /\ SubSeq(s, 1, 1) = " " THEN lstrip(SubSeq(s, 2, Len(s))) ELSE s

RECURSIVE rstrip(_)
rstrip(s) ==
    IF Len(s) > 0 /\ SubSeq(s, Len(s), Len(s)) = " " THEN rstrip(SubSeq(s, 1, Len(s) - 1)) ELSE s

strip(s) == rstrip(lstrip(s))

Min(S) == CHOOSE x \in S : \A y \in S : x <= y

-----------------------------------------------------------------------------
(* The Chroma in-memory system, as the scripts use it.  An entry with uid 0 *)
(* is a name under which no collection is registered.  Chroma gives every   *)
(* created collection a new uuid; here it is the least positive number that *)
(* neither the system nor any handle still held anywhere uses.  A record's  *)
(* batch field is bookkeeping of the model: "current" for a record added by *)
(* the latest batch, "earlier" for an older one.                            *)

Absent == [uid |-> None, records |-> <<>>]

Exists(st, name) == st[name].uid # None

Live(st, h) == h # None /\ \E n \in CollectionNames : st[n].uid = h

NameOf(st, h) == CHOOSE n \in CollectionNames : st[n].uid = h

Handles(st, cache, held) ==
    {st[n].uid : n \in CollectionNames} \cup {cache[n] : n \in CollectionNames} \cup held

Fresh(st, cache, held) ==
    Min({u \in 1..(Cardinality(Handles(st, cache, held)) + 1) :
            u \notin Handles(st, cache, held)})

Age(st) ==
    [n \in CollectionNames |->
        [st[n] EXCEPT !.records = [i \in 1..Len(@) |-> [@[i] EXCEPT !.batch = "earlier"]]]]

Ids(records) == {records[i].id : i \in 1..Len(records)}

\* client.delete_collection(name=...): raises when the name is not registered
delete_collection(st, name) ==
    IF Exists(st, name)
    THEN [raised |-> "", store |-> [st EXCEPT ![name] = Absent]]
    ELSE [raised |-> "collection does not exist", store |-> st]

\* client.create_collection(name=...): a fresh, empty collection with a new uid
create_collection(st, name, uid) ==
    IF Exists(st, name)
    THEN [raised |-> "collection already exists", store |-> st, handle |-> None]
    ELSE [raised |-> "", store |-> [st EXCEPT ![name] = [uid |-> uid, records |-> <<>>]],
          handle |-> uid]

\* client.get_collection(name=...): raises when the name is not registered
get_collection(st, name) ==
    IF Exists(st, name)
    THEN [raised |-> "", handle |-> st[name].uid]
    ELSE [raised |-> "collection does not exist", handle |-> None]

\* variant: a record is inserted whether or not its id is already present
AddWithoutIdCheck(st, h, rec) ==
    IF ~Live(st, h) THEN [raised |-> "collection does not exist", store |-> st]
    ELSE [raised |-> "", store |-> [st EXCEPT ![NameOf(st, h)].records = Append(@, rec)]]

\* collection.add(...) of one record through handle h: fails on a handle whose
\* collection was deleted; a record whose id is already present is not inserted
collection_add(st, h, rec) ==
    IF ~Live(st, h) THEN [raised |-> "collection does not exist", store |-> st]
    ELSE LET n == NameOf(st, h) IN
         IF rec.id \in Ids(st[n].records) THEN [raised |-> "", store |-> st]
         ELSE [raised |-> "",
               store |-> [st EXCEPT ![n].records = Append(@, rec)]]

\* the k records nearest to the query among those with index in S, nearest
\* first; dist[i] is the distance of record i, ties go to the older record
RECURSIVE Nearest(_, _, _, _)
Nearest(records, dist, S, k) ==
    IF k = 0 \/ S = {} THEN <<>>
    ELSE LET d == Min({dist[i] : i \in S})
             i == Min({j \in S : dist[j] = d})
         IN <<[id |-> records[i].id, document |-> records[i].document,
               distance |-> dist[i], metadata |-> records[i].metadata]>>
            \o Nearest(records, dist, S \ {i}, k - 1)

\* collection.query(query_texts=[question], n_results=k)
collection_query(st, h, dist, k) ==
    IF ~Live(st, h) THEN [raised |-> "collection does not exist", results |-> <<>>]
    ELSE LET recs == st[NameOf(st, h)].records IN
         [raised |-> "", results |-> Nearest(recs, dist, 1..Len(recs), k)]

-----------------------------------------------------------------------------
(* Finalapp.py *)

\* the text a file converts to; a text carries the chunks the splitter cuts it
\* into.  A file that cannot be read converts to the error string itself.
convert_to_markdown(file) ==
    CASE file.content = "one" ->
            [strip_len |-> 14, chunks |-> <<"alpha">>, failed |-> FALSE]
      [] file.content = "two" ->
            [strip_len |-> 900, chunks |-> <<"beta", "gamma">>, failed |-> FALSE]
      [] file.content = "short" ->
            [strip_len |-> 3, chunks |-> <<"hi">>, failed |-> FALSE]
      [] OTHER ->
            [strip_len |-> 40, chunks |-> <<"Error converting " \o file.name>>,
             failed |-> TRUE]

\* "# {file.name}\n\nDocument appears to be empty or corrupted."
Placeholder(name) ==
    [strip_len |-> 45 + Len(name),
     chunks |-> <<"# " \o name \o " Document appears to be empty or corrupted.">>,
     failed |-> FALSE]

split_text(text) == text.chunks

make_id(filename, i) == filename \o "_chunk_" \o ToString(i)

\* variant: an existing collection is kept and handed back as it is
ResetKeepsExisting(st, collection_name, uid) ==
    LET g == get_collection(st, collection_name)
        c == create_collection(st, collection_name, uid)
    IN IF g.raised = "" THEN [raised |-> "", store |-> st, collection |-> g.handle]
       ELSE [raised |-> c.raised, store |-> c.store, collection |-> c.handle]

\* variant: the failure of delete_collection is not swallowed
ResetPropagatesDelete(st, collection_name, uid) ==
    LET d == delete_collection(st, collection_name)
        c == create_collection(d.store, collection_name, uid)
    IN IF d.raised # "" THEN [raised |-> d.raised, store |-> st, collection |-> None]
       ELSE [raised |-> c.raised, store |-> c.store, collection |-> c.handle]

\* try: client.delete_collection(name)  except: pass
\* return client.create_collection(name)
reset_collection(st, collection_name, uid) ==
    LET d == delete_collection(st, collection_name)
        c == create_collection(d.store, collection_name, uid)
    IN [raised |-> c.raised, store |-> c.store, collection |-> c.handle]

\* for i, chunk in enumerate(chunks): encode, then collection.add; i is 1-based
\* here, the chunk_index stored is i - 1.  embed_fail = i: encode raises there.
RECURSIVE AddChunks(_, _, _, _, _, _)
AddChunks(st, h, chunks, i, filename, embed_fail) ==
    IF i > Len(chunks) THEN [raised |-> "", store |-> st]
    ELSE IF embed_fail = i THEN [raised |-> "embedding failed", store |-> st]
    ELSE LET rec == [id |-> make_id(filename, i - 1),
                     document |-> chunks[i],
                     metadata |-> [filename |-> filename, chunk_index |-> i - 1,
                                   chunk_size |-> Len(chunks[i])],
                     batch |-> "current"]
             a == collection_add(st, h, rec)
         IN IF a.raised # "" THEN [raised |-> a.raised, store |-> a.store]
            ELSE AddChunks(a.store, h, chunks, i + 1, filename, embed_fail)

\* if collection_name not in add_text_to_chromadb.collections:
\*     try: get_collection  except: create_collection;  collections[name] = collection
\* collection = add_text_to_chromadb.collections[collection_name]
get_or_create(st, cache, uid, collection_name) ==
    LET hit == cache[collection_name] # None
        g == get_collection(st, collection_name)
        c == create_collection(st, collection_name, uid)
        h == IF hit THEN cache[collection_name]
             ELSE IF g.raised = "" THEN g.handle ELSE c.handle
    IN [store |-> IF hit \/ g.raised = "" THEN st ELSE c.store,
        collections |-> [cache EXCEPT ![collection_name] = h],
        collection |-> h]

add_text_to_chromadb(st, cache, uid, text, filename, collection_name, embed_fail) ==
    LET chunks == split_text(text)
        l == get_or_create(st, cache, uid, collection_name)
        r == AddChunks(l.store, l.collection, chunks, 1, filename, embed_fail)
    IN [raised |-> r.raised,
        store |-> r.store,
        collections |-> l.collections,
        collection |-> l.collection]

\* variant: a minimum distance equal to the threshold counts as insufficient
InsufficientAtThreshold(docs, distances) ==
    docs = <<>> \/ Min({distances[i] : i \in 1..Len(distances)}) >= THRESHOLD

\* variant: an empty retrieval is not tested for, and counts as sufficient
InsufficientWhenFar(docs, distances) ==
    docs # <<>> /\ Min({distances[i] : i \in 1..Len(distances)}) > THRESHOLD

\* if not docs or min(distances) > 1.5
Insufficient(docs, distances) ==
    docs = <<>> \/ Min({distances[i] : i \in 1..Len(distances)}) > THRESHOLD

RECURSIVE Join(_, _)
Join(parts, sep) ==
    IF parts = <<>> THEN ""
    ELSE IF Len(parts) = 1 THEN parts[1]
    ELSE parts[1] \o sep \o Join(Tail(parts), sep)

\* "\n\n".join([f"Document {i+1}: {doc}" for i, doc in enumerate(docs)])
plain_context(docs) ==
    Join([i \in 1..Len(docs) |-> "Document " \o ToString(i) \o ": " \o docs[i]], "\n\n")

\* variant: only the nearest chunk is placed in the context
ContextOfNearest(docs, metadatas) ==
    "Document 1 (from " \o metadatas[1].filename \o "): " \o docs[1]

\* variant: the chunks are laid out from the last retrieved to the first
ContextReversed(docs, metadatas) ==
    Join([i \in 1..Len(docs) |->
            "Document " \o ToString(i) \o " (from "
            \o metadatas[Len(docs) + 1 - i].filename \o "): " \o docs[Len(docs) + 1 - i]],
         "\n\n")

\* if metadatas:
\*     "\n\n".join(f"Document {i+1} (from {metadatas[i].get('filename')}): {doc}" ...)
\* else: the numbered chunks alone
build_context(docs, metadatas) ==
    IF metadatas # <<>>
    THEN Join([i \in 1..Len(docs) |->
                 "Document " \o ToString(i) \o " (from " \o metadatas[i].filename \o "): "
                 \o docs[i]],
              "\n\n")
    ELSE plain_context(docs)

\* variant: the question is put before the context
QuestionFirst(context, question) ==
    "Question: " \o question \o "\n\nContext information:\n" \o context
    \o "\n\nInstructions: Answer ONLY using the information provided above. "
    \o "If the answer is not in the context, respond with \"I don't know.\" "
    \o "Do not add information from outside the context.\n\nAnswer:"

\* prompt = f"""Context information:\n{context}\n\nQuestion: {question}\n\n
\* Instructions: ...\n\nAnswer:"""
build_prompt(context, question) ==
    "Context information:\n" \o context \o "\n\nQuestion: " \o question
    \o "\n\nInstructions: Answer ONLY using the information provided above. "
    \o "If the answer is not in the context, respond with \"I don't know.\" "
    \o "Do not add information from outside the context.\n\nAnswer:"

\* variant: the source is taken from the last retrieved chunk
SourceOfLast(metadatas, ids) ==
    IF Len(metadatas) > 0 THEN metadatas[Len(metadatas)].filename ELSE "Unknown source"

\* metadatas[0].get('filename', 'Unknown source'), else the id's prefix
best_source(metadatas, ids) ==
    IF Len(metadatas) > 0 THEN metadatas[1].filename ELSE "Unknown source"

\* variant: the pipeline has been run by the time the refusal is returned
RefuseAfterGenerating(base) ==
    [base EXCEPT !.answer = REFUSAL, !.source = NO_SOURCE, !.pipeline_calls = 1]

\* return "I cannot answer ...", "No source"  -- before any pipeline is built
Refuse(base) == [base EXCEPT !.answer = REFUSAL, !.source = NO_SOURCE]

\* dist: the distance of each stored record from the question; gen: what the
\* text2text-generation pipeline does with the prompt; qfail: the query raises
get_answer_with_source(st, h, question, dist, gen, qfail) ==
    LET q == IF qfail THEN [raised |-> "query failed", results |-> <<>>]
             ELSE collection_query(st, h, dist, N_RESULTS)
        docs == [i \in 1..Len(q.results) |-> q.results[i].document]
        distances == [i \in 1..Len(q.results) |-> q.results[i].distance]
        ids == [i \in 1..Len(q.results) |-> q.results[i].id]
        metadatas == [i \in 1..Len(q.results) |-> q.results[i].metadata]
        base == [raised |-> "", answer |-> "", source |-> "", pipeline_calls |-> 0,
                 context |-> "", prompt |-> "", results |-> q.results]
    IN IF q.raised # "" THEN [base EXCEPT !.raised = q.raised]
       ELSE IF Insufficient(docs, distances)
            THEN Refuse(base)
       ELSE LET context == build_context(docs, metadatas)
                prompt == build_prompt(context, question)
            IN IF gen = "raise"
               THEN [base EXCEPT !.raised = "generation failed", !.pipeline_calls = 1,
                                 !.context = context, !.prompt = prompt]
               ELSE [base EXCEPT !.answer = strip(gen),
                                 !.source = best_source(metadatas, ids),
                                 !.pipeline_calls = 1,
                                 !.context = context, !.prompt = prompt]

\* variant: the entry is appended, the first ten entries are kept
AppendToHistory(history, question, answer, source, now) ==
    LET new == history \o <<[question |-> question, answer |-> answer, source |-> source,
                             timestamp |-> now]>>
    IN IF Len(new) > HISTORY_LIMIT THEN SubSeq(new, 1, HISTORY_LIMIT) ELSE new

\* insert(0, entry); keep [:10].  now stands for the entry's timestamp.
add_to_search_history(history, question, answer, source, now) ==
    LET new == <<[question |-> question, answer |-> answer, source |-> source,
                  timestamp |-> now]>> \o history
    IN IF Len(new) > HISTORY_LIMIT THEN SubSeq(new, 1, HISTORY_LIMIT) ELSE new

-----------------------------------------------------------------------------
(* The 'Process Documents' handler of Finalapp.py *)

EmptyDict == [k \in {} |-> None]

Names(files) == [i \in 1..Len(files) |-> files[i].name]

IsValid(file) == ~(file.size_mb > MAX_FILE_MB)

\* variant: the loop is left at the first failing file
BreakOnException(idx, total_files) == total_files + 1

\* except Exception: ...; continue  -- the index of the file the loop goes on with
OnException(idx, total_files) == idx + 1

\* tempfile.NamedTemporaryFile(delete=False, ...): the file made for the idx-th
\* file of the batch
TempName(idx) == "tmp" \o ToString(idx)

\* Path(temp_file_path).unlink(missing_ok=True); a path that is not there (or a
\* temp_file_path never bound, "") removes nothing
Unlink(temp_files, temp_file_path) == temp_files \ {temp_file_path}

\* variant: only a text without any content counts as too short
TooShortOnlyEmpty(text) == text.strip_len = 0

\* if not text or len(text.strip()) < 10
TooShort(text) == text.strip_len < MIN_TEXT_LEN

\* for idx, file in enumerate(valid_files): try: ... except Exception: ... continue
\* held: the handles the sessions hold (no new uid may repeat one of them)
RECURSIVE ProcessFiles(_, _, _, _)
ProcessFiles(acc, valid_files, idx, held) ==
    IF idx > Len(valid_files) THEN acc
    ELSE LET file == valid_files[idx]
             tmp == TempName(idx)
             created == [acc EXCEPT !.temp_files = @ \cup {tmp},
                                    !.attempted = Append(@, file.name)]
             converted == convert_to_markdown(file)
             bad == TooShort(converted)
             text == IF bad THEN Placeholder(file.name) ELSE converted
             errs == IF bad
                     THEN Append(acc.processing_errors,
                                 [file |-> file.name, kind |-> "warning",
                                  message |-> "Content appears empty or corrupted"])
                     ELSE acc.processing_errors
             a == add_text_to_chromadb(acc.store, acc.collections,
                                       Fresh(acc.store, acc.collections, held), text,
                                       file.name, UPLOADED, file.embed_fail)
             common == [created EXCEPT !.store = a.store,
                                       !.collections = a.collections,
                                       !.document_contents = (file.name :> text) @@ @,
                                       !.temp_file_path = tmp,
                                       !.temp_files = Unlink(@, tmp),
                                       !.texts = Append(@, [file |-> file.name,
                                                            converted |-> converted,
                                                            text |-> text]),
                                       !.outcomes = Append(@, a.raised)]
         IN IF file.content = "unwritable"
            \* temp_file.write raises, temp_file_path = temp_file.name is not reached
            THEN ProcessFiles([created EXCEPT
                                 !.processing_errors =
                                     Append(@, [file |-> file.name, kind |-> "error",
                                                message |-> "write failed"]),
                                 !.temp_files = Unlink(@, acc.temp_file_path),
                                 !.outcomes = Append(@, "write failed")],
                              valid_files, OnException(idx, Len(valid_files)), held)
            ELSE IF a.raised = ""
            THEN ProcessFiles([common EXCEPT !.collection = a.collection,
                                             !.processed_files = Append(@, file.name),
                                             !.processing_errors = errs],
                              valid_files, idx + 1, held)
            ELSE ProcessFiles([common EXCEPT
                                 !.processing_errors =
                                     Append(errs, [file |-> file.name, kind |-> "error",
                                                   message |-> a.raised])],
                              valid_files, OnException(idx, Len(valid_files)), held)

\* what the last rerun was given, did and displayed
BlankLast ==
    [op |-> "start", session |-> "", question |-> "", results |-> <<>>, raised |-> "",
     pipeline_calls |-> 0, queries |-> 0, context |-> "", prompt |-> "", answer |-> "",
     source |-> "", error |-> "", warning |-> "", reset |-> "", removed |-> "", index |-> 0,
     valid_files |-> <<>>, attempted |-> <<>>, errors |-> <<>>, processing_errors |-> <<>>,
     texts |-> <<>>, outcomes |-> <<>>, temp_files |-> {}]

\* a file the user can select: name, size in MB, what the file converts to
\* ("one"/"two": a text of one/two chunks, "short": under 10 characters,
\* "unreadable": conversion fails, "unwritable": writing the temporary copy
\* raises) and the chunk (1-based) whose embedding raises, 0 for none
File(name, size_mb, content, embed_fail) ==
    [name |-> name, size_mb |-> size_mb, content |-> content, embed_fail |-> embed_fail]

\* two files of one name, and a file whose second chunk cannot be embedded
CoreFiles ==
    {File("a.txt", 10, "one", 0), File("a.txt", 10, "two", 0),
     File("b.pdf", 10, "two", 2)}

\* a file above the 10MB the handler accepts, next to one within it
LargeFiles ==
    {File("a.txt", 10, "one", 0), File("b.pdf", 11, "one", 0)}

\* the batches a user can upload: up to MaxFiles of the files at hand, in any
\* order (two of them may carry the same name)
Uploads(files) ==
    {u \in UNION {[1..n -> files] : n \in 0..MaxFiles} :
        \A i, j \in 1..Len(u) : i # j => u[i] # u[j]}

\* what reset_collection finds under the name
Found(st, name) ==
    IF ~Exists(st, name) THEN "absent"
    ELSE IF st[name].records = <<>> THEN "empty" ELSE "nonempty"

\* variant: the lists are stored, the collection of the session is not
UpdateListsOnly(old, acc) ==
    [collection |-> old.collection,
     uploaded_files_processed |-> acc.processed_files,
     document_contents |-> acc.document_contents]

\* variant: the session is left as it was when a file of the batch failed
UpdateUnlessFailed(old, acc) ==
    IF \E i \in 1..Len(acc.outcomes) : acc.outcomes[i] # "" THEN old
    ELSE [collection |-> acc.collection,
          uploaded_files_processed |-> acc.processed_files,
          document_contents |-> acc.document_contents]

\* st.session_state.collection = collection
\* st.session_state.uploaded_files_processed = processed_files
\* st.session_state.document_contents = document_contents
SessionUpdate(old, acc) ==
    [collection |-> acc.collection,
     uploaded_files_processed |-> acc.processed_files,
     document_contents |-> acc.document_contents]

\* variant: the batch is run whether or not a file passed the size check
ProcessAnyway(valid_files) == TRUE

\* if valid_files:
HasValid(valid_files) == valid_files # <<>>

\* if not hasattr(add_text_to_chromadb, 'client'): ... collections = {}
\* The attributes live on the function object.  A host that executes the
\* script anew for a rerun (streamlit run) defines the function again and the
\* rerun starts without them; a host that keeps the module loaded (the script
\* imported by the entry script) keeps the object and its attributes.
Attributes(cache, reexecuted) ==
    IF reexecuted THEN [n \in CollectionNames |-> None] ELSE cache

ProcessDocuments(s, uploaded_files, reexecuted) ==
    LET valid_files == SelectSeq(uploaded_files, IsValid)
        rejected == SelectSeq(uploaded_files, LAMBDA f : ~IsValid(f))
        errors == [i \in 1..Len(rejected) |->
                      [file |-> rejected[i].name, size_mb |-> rejected[i].size_mb]]
        held == {collection[t] : t \in DOMAIN collection}
        cache == Attributes(collections, reexecuted)
        r == reset_collection(Age(store), UPLOADED, Fresh(store, cache, held))
        old == [collection |-> collection[s],
                uploaded_files_processed |-> uploaded_files_processed[s],
                document_contents |-> document_contents[s]]
        log == [BlankLast EXCEPT !.op = "process", !.session = s,
                                 !.valid_files = Names(valid_files), !.errors = errors]
    IN /\ program = "Finalapp"
       /\ IF uploaded_files = <<>>
          THEN /\ last' = [log EXCEPT !.warning = "Please upload files first!"]
               /\ UNCHANGED <<store, collections, collection,
                              uploaded_files_processed, document_contents>>
          ELSE IF ~HasValid(valid_files)
          THEN /\ last' = log
               /\ UNCHANGED <<store, collections, collection,
                              uploaded_files_processed, document_contents>>
          ELSE \E acc \in {ProcessFiles([store |-> r.store, collections |-> cache,
                                           collection |-> r.collection,
                                           processed_files |-> <<>>,
                                           document_contents |-> EmptyDict,
                                           processing_errors |-> <<>>, attempted |-> <<>>,
                                           texts |-> <<>>, outcomes |-> <<>>,
                                           temp_files |-> {}, temp_file_path |-> ""],
                                          valid_files, 1, held \cup {r.collection})} :
               \E new \in {SessionUpdate(old, acc)} :
               /\ store' = acc.store
               /\ collections' = acc.collections
               /\ collection' = [collection EXCEPT ![s] = new.collection]
               /\ uploaded_files_processed' =
                      [uploaded_files_processed EXCEPT ![s] = new.uploaded_files_processed]
               /\ document_contents' = [document_contents EXCEPT ![s] = new.document_contents]
               /\ last' = [log EXCEPT !.reset = Found(store, UPLOADED),
                                      !.attempted = acc.attempted,
                                      !.texts = acc.texts,
                                      !.outcomes = acc.outcomes,
                                      !.temp_files = acc.temp_files,
                                      !.processing_errors = acc.processing_errors,
                                      !.error = IF acc.processed_files = <<>>
                                                THEN "No documents were successfully processed."
                                                ELSE ""]
       /\ UNCHANGED <<program, selectable, search_history, clock>>

-----------------------------------------------------------------------------
(* The 'Ask Questions' and 'Manage' handlers of Finalapp.py *)

Sessions == DOMAIN collection

\* the number of records a query through handle h ranges over
Count(st, h) == IF Live(st, h) THEN Len(st[NameOf(st, h)].records) ELSE 0

\* variant: the question is recorded whether or not an answer was produced
HistoryAlways(history, question, r, now) ==
    add_to_search_history(history, question, r.answer, r.source, now)

\* variant: a refusal is shown but not kept in the history
HistoryOfAnswers(history, question, r, now) ==
    IF r.raised # "" \/ r.answer = REFUSAL THEN history
    ELSE add_to_search_history(history, question, r.answer, r.source, now)

\* try: answer, source = get_answer_with_source(...); ...;
\*      add_to_search_history(question, answer, source)
\* except Exception as e: st.error(...)
HistoryAfterAsk(history, question, r, now) ==
    IF r.raised # "" THEN history
    ELSE add_to_search_history(history, question, r.answer, r.source, now)

\* variant: the question is tested as typed (app.py: if question:)
AskedUnstripped(question) == question # ""

\* question.strip()
Asked(question) == strip(question) # ""

\* if search_clicked and question.strip(): ... elif search_clicked: st.warning(...)
Ask(s, question, dist, gen, qfail) ==
    LET r == get_answer_with_source(store, collection[s], question, dist, gen, qfail)
        log == [BlankLast EXCEPT !.op = "ask", !.session = s, !.question = question]
    IN /\ program = "Finalapp"
       /\ collection[s] # None
       /\ IF ~Asked(question)
          THEN /\ last' = [log EXCEPT !.warning = "Please enter a question to search."]
               /\ UNCHANGED <<search_history, clock>>
          ELSE /\ search_history' =
                      [search_history EXCEPT
                          ![s] = HistoryAfterAsk(@, question, r, clock + 1)]
               /\ clock' = IF search_history' = search_history THEN clock ELSE clock + 1
               /\ clock' <= MaxAsks
               /\ IF r.raised # ""
                  THEN last' = [log EXCEPT !.queries = 1, !.results = r.results,
                                           !.raised = r.raised,
                                           !.pipeline_calls = r.pipeline_calls,
                                           !.context = r.context, !.prompt = r.prompt,
                                           !.error = "Error generating answer: " \o r.raised]
                  ELSE last' = [log EXCEPT !.queries = 1, !.results = r.results,
                                           !.pipeline_calls = r.pipeline_calls,
                                           !.context = r.context, !.prompt = r.prompt,
                                           !.answer = r.answer, !.source = r.source]
       /\ UNCHANGED <<program, store, selectable, collections, collection,
                      uploaded_files_processed, document_contents>>

\* the 'Ask Questions' tab while st.session_state.collection is None: no
\* question field and no button are drawn, only the "No Documents Yet" panel
AskWithoutCollection(s) ==
    /\ program = "Finalapp"
    /\ collection[s] = None
    /\ last' = [BlankLast EXCEPT !.op = "ask", !.session = s,
                                 !.warning = "No Documents Yet"]
    /\ UNCHANGED <<program, store, selectable, collections, collection,
                   uploaded_files_processed, document_contents, search_history, clock>>

\* variant: every entry with the name of entry i is removed
RemoveByName(seq, i) == SelectSeq(seq, LAMBDA x : x # seq[i])

\* uploaded_files_processed.pop(i)
RemoveAt(seq, i) == SubSeq(seq, 1, i - 1) \o SubSeq(seq, i + 1, Len(seq))

\* the delete button of the document at position i (1-based here)
DeleteDocument(s, i) ==
    LET filename == uploaded_files_processed[s][i] IN
    /\ program = "Finalapp"
    /\ i \in 1..Len(uploaded_files_processed[s])
    /\ uploaded_files_processed' = [uploaded_files_processed EXCEPT ![s] = RemoveAt(@, i)]
    /\ document_contents' =
           [document_contents EXCEPT ![s] = [k \in DOMAIN @ \ {filename} |-> @[k]]]
    /\ last' = [BlankLast EXCEPT !.op = "delete", !.session = s, !.removed = filename,
                                !.index = i]
    /\ UNCHANGED <<program, store, selectable, collections, collection, search_history,
                   clock>>

-----------------------------------------------------------------------------
(* app.py and app1.py: the whole script runs on every interaction *)

my_documents == <<"heritage", "cuisine", "trends", "festivals", "tips">>

\* the documents are added without metadata
NoMetadata == [filename |-> "None", chunk_index |-> 0, chunk_size |-> 0]

\* collection.add(documents=my_documents, ids=["doc1", ..., "doc5"])
RECURSIVE AddDocuments(_, _, _, _)
AddDocuments(st, h, documents, i) ==
    IF i > Len(documents) THEN [raised |-> "", store |-> st]
    ELSE LET a == collection_add(st, h, [id |-> "doc" \o ToString(i),
                                         document |-> documents[i],
                                         metadata |-> NoMetadata, batch |-> "current"])
         IN IF a.raised # "" THEN a ELSE AddDocuments(a.store, h, documents, i + 1)

setup_documents(st, uid) ==
    LET g == get_collection(st, DOCS)
        c == create_collection(st, DOCS, uid)
        st1 == IF g.raised = "" THEN st ELSE c.store
        h == IF g.raised = "" THEN g.handle ELSE c.handle
        a == AddDocuments(st1, h, my_documents, 1)
    IN [raised |-> a.raised, store |-> a.store, collection |-> h]

\* get_answer of app.py, app1.py and Finalapp.py; they differ in the refusal text
get_answer(refusal, st, h, question, dist, gen) ==
    LET q == collection_query(st, h, dist, N_RESULTS)
        docs == [i \in 1..Len(q.results) |-> q.results[i].document]
        distances == [i \in 1..Len(q.results) |-> q.results[i].distance]
        base == [raised |-> "", answer |-> "", pipeline_calls |-> 0, context |-> "",
                 prompt |-> "", results |-> q.results]
    IN IF q.raised # "" THEN [base EXCEPT !.raised = q.raised]
       ELSE IF Insufficient(docs, distances)
            THEN [base EXCEPT !.answer = refusal]
       ELSE LET context == plain_context(docs)
                prompt == build_prompt(context, question)
            IN IF gen = "raise"
               THEN [base EXCEPT !.raised = "generation failed", !.pipeline_calls = 1,
                                 !.context = context, !.prompt = prompt]
               ELSE [base EXCEPT !.answer = strip(gen), !.pipeline_calls = 1,
                                 !.context = context, !.prompt = prompt]

RefusalOf(prog) ==
    CASE prog = "app" -> APP_REFUSAL [] prog = "app1" -> APP1_REFUSAL [] OTHER -> REFUSAL

\* collection = setup_documents(); if st.button(...): if question: get_answer(...)
AppRerun(clicked, question, dist, gen) ==
    LET d == setup_documents(store, Fresh(store, collections, {}))
        r == get_answer(RefusalOf(program), d.store, d.collection, question, dist, gen)
        log == [BlankLast EXCEPT !.op = "rerun", !.question = question]
    IN /\ program \in {"app", "app1"}
       /\ store' = d.store
       /\ IF d.raised # "" THEN last' = [log EXCEPT !.raised = d.raised, !.error = d.raised]
          ELSE IF ~clicked THEN last' = log
          ELSE IF question = "" THEN last' = [log EXCEPT !.warning = "Please ask me something"]
          ELSE IF r.raised # ""
               THEN last' = [log EXCEPT !.queries = 1, !.results = r.results,
                                        !.raised = r.raised, !.error = r.raised,
                                        !.pipeline_calls = r.pipeline_calls,
                                        !.context = r.context, !.prompt = r.prompt]
               ELSE last' = [log EXCEPT !.queries = 1, !.results = r.results,
                                        !.answer = r.answer,
                                        !.pipeline_calls = r.pipeline_calls,
                                        !.context = r.context, !.prompt = r.prompt]
       /\ UNCHANGED <<program, selectable, collections, collection,
                      uploaded_files_processed, document_contents, search_history, clock>>

-----------------------------------------------------------------------------
(* Specifications *)

Programs == {"Finalapp", "app", "app1"}

\* the state of a fresh process serving the sessions S
Start(S) ==
    /\ store = [n \in CollectionNames |-> Absent]
    /\ collections = [n \in CollectionNames |-> None]
    /\ collection = [s \in S |-> None]
    /\ uploaded_files_processed = [s \in S |-> <<>>]
    /\ document_contents = [s \in S |-> EmptyDict]
    /\ search_history = [s \in S |-> <<>>]
    /\ last = BlankLast
    /\ clock = 0

\* one of the three scripts is run; the user of Finalapp.py has one of two
\* sets of files at hand
Init ==
    /\ program \in Programs
    /\ IF program = "Finalapp" THEN selectable \in {CoreFiles, LargeFiles}
       ELSE selectable = {}
    /\ Start({"s1"})

\* for a blank question and for a failing query the distances and the
\* generator are never looked at
NoDist == [i \in {} |-> 0]

Blank == {q \in Questions : strip(q) = ""}

\* the distances of n records from a question: none of them within the
\* threshold, or exactly one
DistanceVectors(n) ==
    {d \in [1..n -> Distances] : Cardinality({i \in 1..n : d[i] <= THRESHOLD}) <= 1}

\* the distances of the five built-in documents from a question
AppDistances == DistanceVectors(Len(my_documents))

Next ==
    \/ \E s \in Sessions, up \in Uploads(selectable), reexecuted \in BOOLEAN :
          ProcessDocuments(s, up, reexecuted)
    \/ \E s \in Sessions, question \in Blank :
          \E dist \in DistanceVectors(Count(store, collection[s])) :
             Ask(s, question, dist, " Paris. ", FALSE)
    \/ \E s \in Sessions : AskWithoutCollection(s)
    \/ \E s \in Sessions, question \in Questions \ Blank :
          \/ Ask(s, question, NoDist, "raise", TRUE)
          \/ \E gen \in Generated, dist \in DistanceVectors(Count(store, collection[s])) :
                Ask(s, question, dist, gen, FALSE)
    \/ \E s \in Sessions, i \in 1..MaxFiles : DeleteDocument(s, i)
    \/ AppRerun(FALSE, "", NoDist, "raise")
    \/ \E question \in {"", "  "}, gen \in Generated :
          \E dist \in AppDistances :
             AppRerun(TRUE, question, dist, gen)

Spec == Init /\ [][Next]_vars

\* add_to_search_history called directly, MaxRecords times at most
Record(s, question, answer, source) ==
    /\ clock < MaxRecords
    /\ search_history' =
           [search_history EXCEPT
               ![s] = add_to_search_history(@, question, answer, source, clock + 1)]
    /\ clock' = clock + 1
    /\ UNCHANGED <<program, store, selectable, collections, collection,
                   uploaded_files_processed, document_contents, last>>

InitHistory == program = "Finalapp" /\ selectable = {} /\ Start({"s1"})

NextHistory ==
    \E s \in Sessions, question \in Questions \ Blank, answer \in {REFUSAL, "Paris."} :
        Record(s, question, answer, IF answer = REFUSAL THEN NO_SOURCE ELSE "a.txt")

SpecHistory == InitHistory /\ [][NextHistory]_vars

\* ingestion of a good file next to files that fail: the conversion fails, the
\* text is too short, the temporary copy cannot be written
IngestFiles ==
    {File("a.txt", 10, "one", 0), File("c.pdf", 10, "unreadable", 0),
     File("d.txt", 10, "short", 0), File("e.txt", 10, "unwritable", 0)}

InitIngest == program = "Finalapp" /\ selectable = IngestFiles /\ Start({"s1"})

NextIngest ==
    \/ \E s \in Sessions, up \in Uploads(selectable), reexecuted \in BOOLEAN :
          ProcessDocuments(s, up, reexecuted)
    \/ \E s \in Sessions, i \in 1..MaxFiles : DeleteDocument(s, i)

SpecIngest == InitIngest /\ [][NextIngest]_vars

\* two browser sessions served by one process: each has its own
\* st.session_state, both use the one in-memory Chroma system and the one
\* collection name "uploaded_documents"
TwoFiles == {File("a.txt", 10, "one", 0), File("b.pdf", 10, "two", 0)}

InitTwo == program = "Finalapp" /\ selectable = TwoFiles /\ Start({"s1", "s2"})

NextTwo ==
    \/ \E s \in Sessions, file \in selectable, reexecuted \in BOOLEAN :
          ProcessDocuments(s, <<file>>, reexecuted)
    \/ \E s \in Sessions, gen \in Generated \ {"raise"} :
          \E dist \in DistanceVectors(Count(store, collection[s])) :
             Ask(s, "where", dist, gen, FALSE)

SpecTwo == InitTwo /\ [][NextTwo]_vars

-----------------------------------------------------------------------------
(* Properties *)

\* a question was put to the index and the call returned
Answered == last.op \in {"ask", "rerun"} /\ last.queries = 1 /\ last.raised = ""

\* nothing was retrieved, or no retrieved chunk lies within the threshold
NothingClose(results) == \A i \in 1..Len(results) : results[i].distance > THRESHOLD

Refused ==
    /\ last.answer = RefusalOf(program)
    /\ program = "Finalapp" => last.source = NO_SOURCE

\* C1: with k = 3 and threshold 1.5, a question is refused (refusal text, and in
\* Finalapp "No source") exactly when the retrieval is empty or its minimum
\* distance exceeds 1.5; a minimum distance of at most 1.5 takes the evidence
\* path, which runs the generator and returns its stripped output.
C1_SufficiencyGate ==
    /\ last.queries = 1 => Len(last.results) <= N_RESULTS
    /\ Answered =>
         /\ Refused <=> NothingClose(last.results)
         /\ ~NothingClose(last.results) =>
               last.pipeline_calls = 1 /\ last.answer = "Paris."
    /\ last.raised = "generation failed" => ~NothingClose(last.results)

\* C1 witness: an answer generated from three chunks whose nearest lies exactly
\* at the threshold
C1_Witness ==
    /\ program = "Finalapp" /\ Answered
    /\ Len(last.results) = N_RESULTS
    /\ last.results[1].distance = THRESHOLD
    /\ last.results[2].distance > THRESHOLD
    /\ last.answer = "Paris."

\* C2: when the evidence is insufficient no generator call is made between the
\* query and the return of the refusal.
C2_NoGenerationOnRefusal ==
    (last.op \in {"ask", "rerun"} /\ last.queries = 1 /\ NothingClose(last.results)
       /\ last.raised # "query failed")
    => /\ last.pipeline_calls = 0
       /\ last.raised = ""
       /\ Refused

\* C2 witness: a refusal over a non-empty retrieval
C2_Witness ==
    /\ program = "Finalapp" /\ last.op = "ask" /\ last.queries = 1
    /\ last.results # <<>> /\ NothingClose(last.results)
    /\ last.answer = REFUSAL

\* C3: after a batch has been ingested (reset, then adds) every record of the
\* session's active collection was added by that batch; none of an earlier
\* batch is left.
C3_NoStaleRecords ==
    \A s \in Sessions :
        Live(store, collection[s]) =>
            \A i \in 1..Count(store, collection[s]) :
                store[NameOf(store, collection[s])].records[i].batch = "current"

\* C3 witness: a batch ingested over a collection that held an earlier batch
C3_Witness ==
    /\ last.op = "process" /\ last.reset = "nonempty"
    /\ Live(store, collection[last.session])
    /\ last.attempted # <<>>

C5_SecondAddRejected ==
    last.op = "process" =>
        \A s \in Sessions :
            \A i, j \in 1..Len(uploaded_files_processed[s]) :
                uploaded_files_processed[s][i] = uploaded_files_processed[s][j] => i = j

\* C6: after n recordings the history holds the min(n, 10) most recently
\* recorded entries, most recent first (the n-th recording carries timestamp n).
C6_HistoryBound ==
    \A s \in Sessions :
        /\ Len(search_history[s]) = IF clock < HISTORY_LIMIT THEN clock ELSE HISTORY_LIMIT
        /\ \A i \in 1..Len(search_history[s]) :
               search_history[s][i].timestamp = clock - i + 1

\* C6 witness: fifteen recordings, of which the last ten are kept
C6_Witness ==
    /\ clock = 15
    /\ Len(search_history["s1"]) = HISTORY_LIMIT
    /\ search_history["s1"][1].timestamp = 15
    /\ search_history["s1"][HISTORY_LIMIT].timestamp = 6

\* C7: when the query or the generation raises while a question is handled,
\* the error is displayed, no answer is displayed for the question and the
\* history stays exactly what it was.
C7_FailureNotRecorded ==
    [][(last'.op = "ask" /\ last'.raised # "")
          => /\ search_history' = search_history
             /\ last'.error = "Error generating answer: " \o last'.raised
             /\ last'.answer = "" /\ last'.source = ""]_vars

\* C7 witness: the generator raised on a question asked after another had been
\* answered and recorded
C7_Witness ==
    /\ last.op = "ask" /\ last.raised = "generation failed" /\ last.pipeline_calls = 1
    /\ last.error # ""
    /\ Len(search_history[last.session]) = 1

\* what a caller can observe of the store: which names are registered and the
\* records each holds
Observable(st) ==
    [n \in CollectionNames |-> [exists |-> Exists(st, n), records |-> st[n].records]]

\* C8: reset_collection on a name that is not registered succeeds and leaves an
\* empty collection under it; on a registered name it leaves the same; a second
\* reset leaves what the first left.
C8_ResetIdempotent ==
    LET gone == [store EXCEPT ![UPLOADED] = Absent]
        held == {collection[s] : s \in Sessions}
        r0 == reset_collection(gone, UPLOADED, Fresh(gone, collections, held))
        r1 == reset_collection(store, UPLOADED, Fresh(store, collections, held))
        r2 == reset_collection(r1.store, UPLOADED,
                               Fresh(r1.store, collections, held \cup {r1.collection}))
    IN /\ r0.raised = "" /\ r1.raised = "" /\ r2.raised = ""
       /\ Found(r0.store, UPLOADED) = "empty"
       /\ Found(r1.store, UPLOADED) = "empty"
       /\ r1.collection = r1.store[UPLOADED].uid
       /\ Observable(r1.store) = Observable(r0.store)
       /\ Observable(r2.store) = Observable(r1.store)
       /\ r1.store[DOCS] = store[DOCS]
       /\ (last.op = "process" /\ last.attempted # <<>>) => last.reset # ""

\* C8 witness: the first batch was ingested after a reset that found nothing
\* under the name, and the collection now holds records for the next reset
C8_Witness ==
    /\ last.op = "process" /\ last.reset = "absent"
    /\ Found(store, UPLOADED) = "nonempty"

\* C9: the source reported with a grounded answer is the filename stored with
\* the rank-0 chunk, and no retrieved chunk is nearer than that chunk.
C9_SourceIsNearest ==
    (last.op = "ask" /\ last.raised = "" /\ last.pipeline_calls = 1)
    => /\ last.results # <<>>
       /\ last.source = last.results[1].metadata.filename
       /\ \A i \in 1..Len(last.results) :
              last.results[1].distance <= last.results[i].distance

\* C9 witness: the nearest chunk belongs to one file, the other two retrieved
\* chunks to another
C9_Witness ==
    /\ last.op = "ask" /\ last.raised = "" /\ last.pipeline_calls = 1
    /\ Len(last.results) = 3
    /\ last.source = "b.pdf"
    /\ last.results[2].metadata.filename = "a.txt"
    /\ last.results[3].metadata.filename = "a.txt"

\* the entries of a batch that report a file's failure
Failures(entries) == SelectSeq(entries, LAMBDA e : e.kind = "error")

\* C10: a file that raises during ingestion does not keep the remaining files
\* of the batch from being attempted; every valid file is attempted, in order,
\* and ends up either processed or with exactly one per-file error entry.
C10_BestEffortIngestion ==
    (last.op = "process" /\ last.valid_files # <<>>)
    => LET s == last.session
           failed == Failures(last.processing_errors)
       IN /\ last.attempted = last.valid_files
          /\ Len(uploaded_files_processed[s]) + Len(failed) = Len(last.valid_files)
          /\ \A i \in 1..Len(failed) :
                \E j \in 1..Len(last.valid_files) : failed[i].file = last.valid_files[j]

\* C10 witness: the first file of a batch failed, the second was processed
C10_Witness ==
    /\ last.op = "process"
    /\ last.valid_files = <<"b.pdf", "a.txt">>
    /\ Len(Failures(last.processing_errors)) = 1
    /\ last.processing_errors[1].file = "b.pdf"
    /\ uploaded_files_processed[last.session] = <<"a.txt">>

\* C11: whenever the conversion of a file fails, the text indexed for it is a
\* placeholder and processing_errors holds an entry for that file; the failure
\* text is never indexed as the file's content without one.
C11_ConversionFailureReported ==
    last.op = "process" =>
        \A i \in 1..Len(last.texts) :
            last.texts[i].converted.failed =>
                /\ ~last.texts[i].text.failed
                /\ \E j \in 1..Len(last.processing_errors) :
                       last.processing_errors[j].file = last.texts[i].file

\* the warnings of a batch for one file
WarningsFor(entries, file) ==
    SelectSeq(entries, LAMBDA e : e.kind = "warning" /\ e.file = file)

\* C12: a converted text of fewer than 10 characters after stripping is replaced
\* by the 'empty or corrupted' placeholder, one warning for the file is put in
\* processing_errors and the file and the batch go on; every text handed to the
\* chunker has stripped length >= 10.
C12_MinimumLength ==
    last.op = "process" =>
        /\ last.attempted = last.valid_files
        /\ Len(last.texts) =
              Cardinality({i \in 1..Len(last.outcomes) : last.outcomes[i] # "write failed"})
        /\ \A i \in 1..Len(last.texts) :
              LET t == last.texts[i] IN
              /\ t.text.strip_len >= MIN_TEXT_LEN
              /\ IF t.converted.strip_len < MIN_TEXT_LEN
                 THEN /\ t.text = Placeholder(t.file)
                      /\ Len(WarningsFor(last.processing_errors, t.file)) = 1
                 ELSE /\ t.text = t.converted
                      /\ WarningsFor(last.processing_errors, t.file) = <<>>

\* C12 witness: a file too short, replaced and indexed, and the file after it
\* processed as well
C12_Witness ==
    /\ last.op = "process"
    /\ last.valid_files = <<"d.txt", "a.txt">>
    /\ last.texts[1].converted.strip_len < MIN_TEXT_LEN
    /\ Len(WarningsFor(last.processing_errors, "d.txt")) = 1
    /\ uploaded_files_processed[last.session] = <<"d.txt", "a.txt">>
    /\ Len(store[UPLOADED].records) = 2

C14_EmptyCollectionRefused ==
    (last.op = "ask" /\ last.queries = 1 /\ last.raised # "query failed"
       /\ last.results = <<>>)
    => /\ last.raised = "" /\ last.error = ""
       /\ last.answer = REFUSAL /\ last.source = NO_SOURCE
       /\ last.pipeline_calls = 0

\* C14 witness: the session's collection is registered and empty, and a question
\* was refused
C14_Witness ==
    /\ last.op = "ask" /\ last.queries = 1 /\ last.results = <<>>
    /\ Live(store, collection[last.session])
    /\ Count(store, collection[last.session]) = 0
    /\ last.answer = REFUSAL

\* the context entry of the chunk retrieved at rank i
EntryOf(results, i) ==
    "Document " \o ToString(i) \o " (from " \o results[i].metadata.filename \o "): "
    \o results[i].document

\* the entries of the chunks of rank i and after, a blank line between two
RECURSIVE EntriesFrom(_, _)
EntriesFrom(results, i) ==
    IF i > Len(results) THEN ""
    ELSE IF i = Len(results) THEN EntryOf(results, i)
    ELSE EntryOf(results, i) \o "\n\n" \o EntriesFrom(results, i + 1)

\* C15: on the evidence path the context holds one entry per retrieved chunk, in
\* rank order and numbered from 1, each with the filename and the text of its
\* own chunk, separated by blank lines.
C15_ContextOrder ==
    (last.op = "ask" /\ last.pipeline_calls = 1)
    => last.context = EntriesFrom(last.results, 1)

\* C15 witness: three chunks of two files were laid out for the generator
C15_Witness ==
    /\ last.op = "ask" /\ last.pipeline_calls = 1
    /\ Len(last.results) = 3
    /\ last.results[1].metadata.filename # last.results[2].metadata.filename
    /\ last.results[1].document # last.results[3].document

INSTRUCTIONS ==
    "Instructions: Answer ONLY using the information provided above. "
    \o "If the answer is not in the context, respond with \"I don't know.\" "
    \o "Do not add information from outside the context."

\* C16: every prompt given to the generator is, in this order, the context
\* block, the literal question, the instruction block and the cue "Answer:",
\* in each of the three scripts.
C16_PromptStructure ==
    (last.op \in {"ask", "rerun"} /\ last.pipeline_calls = 1)
    => /\ last.context # ""
       /\ last.prompt = "Context information:\n" \o last.context
                        \o "\n\nQuestion: " \o last.question
                        \o "\n\n" \o INSTRUCTIONS
                        \o "\n\nAnswer:"

\* C16 witness: app.py built a prompt for a question
C16_Witness ==
    /\ program = "app" /\ last.op = "rerun" /\ last.pipeline_calls = 1
    /\ last.question # "" /\ last.prompt # ""

\* C17: the limit is the documented 200MB: of the files selected when 'Process
\* Documents' is clicked only those larger than 200MB are rejected, every other
\* file is converted and indexed.
C17_DocumentedLimit ==
    last.op = "process" =>
        \A i \in 1..Len(last.errors) : last.errors[i].size_mb > DOCUMENTED_MAX_MB

\* the entry a question, its answer and its source make in the history
Newest(s) ==
    [question |-> search_history[s][1].question,
     answer |-> search_history[s][1].answer,
     source |-> search_history[s][1].source]

\* C18: a refusal is an ordinary outcome: the refusal sentence is displayed as
\* the answer, no error is shown, and (question, refusal, "No source") becomes
\* the newest history entry, as (question, answer, source) does for a generated
\* answer.
C18_RefusalRecorded ==
    (last.op = "ask" /\ last.queries = 1 /\ last.raised = "")
    => /\ last.error = "" /\ last.warning = ""
       /\ search_history[last.session] # <<>>
       /\ Newest(last.session) = [question |-> last.question, answer |-> last.answer,
                                  source |-> last.source]
       /\ search_history[last.session][1].timestamp = clock
       /\ NothingClose(last.results) =>
             last.answer = REFUSAL /\ last.source = NO_SOURCE

\* C18 witness: a refusal over a non-empty retrieval is the newest history entry
C18_Witness ==
    /\ last.op = "ask" /\ last.results # <<>> /\ last.answer = REFUSAL
    /\ last.error = ""
    /\ Len(search_history[last.session]) = 1
    /\ search_history[last.session][1].answer = REFUSAL
    /\ search_history[last.session][1].source = NO_SOURCE

\* C19: when a batch has finished, none of the temporary files made for it is
\* left, whether its file was ingested or raised.
C19_TempFilesDeleted ==
    last.op = "process" => last.temp_files = {}

\* the names, in order, at the positions from i on where nothing was raised
\* (ok) or something was (~ok)
RECURSIVE Where(_, _, _, _)
Where(names, outcomes, i, ok) ==
    IF i > Len(names) THEN <<>>
    ELSE (IF (outcomes[i] = "") = ok THEN <<names[i]>> ELSE <<>>)
         \o Where(names, outcomes, i + 1, ok)

\* C20: after a batch with a valid file the session holds the collection of the
\* batch whatever failed, uploaded_files_processed is the valid files that
\* raised nothing, in upload order, and each failed file has exactly one error
\* entry in processing_errors.
C20_PartialBatch ==
    (last.op = "process" /\ last.valid_files # <<>>)
    => LET s == last.session
           failed == Failures(last.processing_errors)
       IN /\ collection[s] # None /\ collection[s] = store[UPLOADED].uid
          /\ Len(last.outcomes) = Len(last.valid_files)
          /\ uploaded_files_processed[s] =
                Where(last.valid_files, last.outcomes, 1, TRUE)
          /\ [i \in 1..Len(failed) |-> failed[i].file] =
                Where(last.valid_files, last.outcomes, 1, FALSE)

\* C20 witness: a batch of which the first file failed and the second was
\* ingested, the session holding the collection with the second file's record
C20_Witness ==
    /\ last.op = "process"
    /\ last.valid_files = <<"e.txt", "a.txt">>
    /\ last.outcomes = <<"write failed", "">>
    /\ uploaded_files_processed[last.session] = <<"a.txt">>
    /\ Count(store, collection[last.session]) = 1

\* the records a collection holds for the chunks of one file: for every chunk
\* c_i one record "<filename>_chunk_<i>" with text c_i and the metadata of 279-297
HoldsChunksOf(records, filename, chunks) ==
    \A i \in 1..Len(chunks) :
        \E k \in 1..Len(records) :
            /\ records[k].id = filename \o "_chunk_" \o ToString(i - 1)
            /\ records[k].document = chunks[i]
            /\ records[k].metadata = [filename |-> filename, chunk_index |-> i - 1,
                                      chunk_size |-> Len(chunks[i])]

\* C21: after add_text_to_chromadb has returned for a file of chunks c_0..c_(n-1),
\* the collection it wrote to holds, for every i, the record "<filename>_chunk_<i>"
\* with text c_i, the filename, chunk_index i and chunk_size len(c_i).
C21_RecordFormat ==
    (last.op = "process" /\ Len(last.outcomes) = Len(last.texts))
    => \A j \in 1..Len(last.texts) :
          last.outcomes[j] = ""
          => HoldsChunksOf(store[UPLOADED].records, last.texts[j].file,
                           split_text(last.texts[j].text))

C23_IndexMatchesList ==
    \A s \in Sessions :
        Live(store, collection[s])
        => LET records == store[NameOf(store, collection[s])].records IN
           \A k \in 1..Len(records) :
               \E i \in 1..Len(uploaded_files_processed[s]) :
                   uploaded_files_processed[s][i] = records[k].metadata.filename

\* C24: whatever the two sessions have done, the collection a session holds can
\* still be used, and every record in it belongs to a document that session
\* uploaded (one with an entry in its own document_contents).
C24_SessionIsolation ==
    \A s \in Sessions :
        collection[s] # None
        => /\ Live(store, collection[s])
           /\ LET records == store[NameOf(store, collection[s])].records IN
              \A k \in 1..Len(records) :
                  records[k].metadata.filename \in DOMAIN document_contents[s]

\* C25: the delete button of entry i takes exactly that entry out of the
\* session's uploaded_files_processed and that file name's text out of its
\* document_contents; the other entries and texts, the index, the cached and the
\* session's collection, the search history and the other sessions stay as
\* they are.
C25_DeleteIsListEdit ==
    [][last'.op = "delete"
       => LET s == last'.session
              i == last'.index
              old == uploaded_files_processed[s]
              new == uploaded_files_processed'[s]
          IN /\ i \in 1..Len(old)
             /\ Len(new) = Len(old) - 1
             /\ \A k \in 1..Len(new) : new[k] = IF k < i THEN old[k] ELSE old[k + 1]
             /\ DOMAIN document_contents'[s] = DOMAIN document_contents[s] \ {old[i]}
             /\ \A k \in DOMAIN document_contents'[s] :
                   document_contents'[s][k] = document_contents[s][k]
             /\ \A t \in Sessions \ {s} :
                   /\ uploaded_files_processed'[t] = uploaded_files_processed[t]
                   /\ document_contents'[t] = document_contents[t]
             /\ UNCHANGED <<store, collections, collection, search_history>>]_vars

\* C25 witness: the first of two listed documents was deleted in a session
\* that has records in its collection and an entry in its search history
C25_Witness ==
    /\ last.op = "delete"
    /\ last.index = 1
    /\ Len(uploaded_files_processed[last.session]) = 1
    /\ Count(store, collection[last.session]) > 0
    /\ search_history[last.session] # <<>>

\* C26: a click on 'Process Documents' with no uploaded file, or with files that
\* are all over 10MB, resets nothing: the index, the cached and the session's
\* collection, uploaded_files_processed, document_contents and search_history
\* are what they were before the click.
C26_RejectedBatch ==
    [][(last'.op = "process" /\ last'.valid_files = <<>>)
       => UNCHANGED <<store, collections, collection, uploaded_files_processed,
                      document_contents, search_history>>]_vars

\* C26 witness: a batch of one file over 10MB was rejected in a session that
\* had ingested a document before, and the document is still listed and indexed
C26_Witness ==
    /\ last.op = "process"
    /\ last.valid_files = <<>>
    /\ Len(last.errors) = 1
    /\ last.errors[1].size_mb > MAX_FILE_MB
    /\ uploaded_files_processed[last.session] # <<>>
    /\ Count(store, collection[last.session]) > 0

\* the rerun neither queried the index nor ran the generator
Idle(log) == log.queries = 0 /\ log.pipeline_calls = 0

\* C27: a batch, a delete, a click with a blank or whitespace-only question and
\* the ask tab of a session without a collection leave search_history as it
\* was and run neither a query nor the generator; search_history changes only
\* in a step that put a non-blank question to the index and got an answer back.
C27_HistoryOnlyByAsk ==
    [][/\ (\/ last'.op \in {"process", "delete"}
           \/ (last'.op = "ask" /\ strip(last'.question) = "")
           \/ (last'.op = "ask" /\ collection[last'.session] = None))
          => (search_history' = search_history /\ Idle(last'))
       /\ search_history' # search_history
          => /\ last'.op = "ask" /\ strip(last'.question) # ""
             /\ collection[last'.session] # None
             /\ last'.queries = 1 /\ last'.raised = ""]_vars

\* C27 witness: a whitespace-only question was asked in a session that has an
\* indexed document and one recorded answer; the entry is still the only one
C27_Witness ==
    /\ last.op = "ask"
    /\ last.question = "  "
    /\ last.warning = "Please enter a question to search."
    /\ Count(store, collection[last.session]) > 0
    /\ Len(search_history[last.session]) = 1

\* sub occurs in s
Contains(s, sub) ==
    \E k \in 1..(Len(s) - Len(sub) + 1) : SubSeq(s, k, k + Len(sub) - 1) = sub

\* C28: when a question was answered from the index and at least one returned
\* chunk lies within the threshold, the context given to the generator holds
\* the text of every returned chunk, those beyond the threshold included, and
\* numbers them up to the number of chunks returned.
C28_GateAllOrNothing ==
    (Answered /\ ~NothingClose(last.results))
    => /\ last.pipeline_calls = 1
       /\ \A i \in 1..Len(last.results) :
             /\ Contains(last.context, last.results[i].document)
             /\ Contains(last.context, "Document " \o ToString(i))
       /\ ~Contains(last.context, "Document " \o ToString(Len(last.results) + 1))

\* C28 witness: of two chunks returned for a question one lies at the threshold
\* and the other beyond it, and the generator was given a context
C28_Witness ==
    /\ last.op = "ask" /\ last.raised = "" /\ last.pipeline_calls = 1
    /\ Len(last.results) = 2
    /\ last.results[1].distance = THRESHOLD
    /\ last.results[2].distance > THRESHOLD
    /\ last.context # ""

\* C29: a session whose uploaded_files_processed is not empty holds a
\* collection (st.session_state.collection is not None).
C29_CollectionPresent ==
    \A s \in Sessions : uploaded_files_processed[s] # <<>> => collection[s] # None

\* C29 witness: after a delete a session still lists a document and holds a
\* collection that is registered
C29_Witness ==
    /\ last.op = "delete"
    /\ uploaded_files_processed[last.session] # <<>>
    /\ collection[last.session] # None
    /\ Live(store, collection[last.session])
====
